---- MODULE Spec2Model ----
(***************************************************************************)
(* Model of the Uber Ride Tracker integration: the OAuth token manager     *)
(* (oauth.py, UberOAuthManager), the ride client (api.py, UberAPI) and     *)
(* the polling coordinator (coordinator.py, UberRideCoordinator).          *)
(*                                                                         *)
(* Two logical flows run on the host's event loop: the poll tick ("tick")  *)
(* and the on-demand history fetch ("hist").  A flow runs atomically up to *)
(* its next network await (token-endpoint POST or ride-endpoint request);  *)
(* the reply to that await is a separate action.                           *)
(***************************************************************************)
EXTENDS Integers, Sequences, FiniteSets, TLC

\* ---------------------------------------------------------------- bounds
MaxTime == 3600
MaxStreak == 3
RefreshCap == 2

\* ------------------------------------------------------------- constants
UPDATE_INTERVAL_ACTIVE == 10
UPDATE_INTERVAL_INACTIVE == 60
UPDATE_INTERVAL_ERROR == 300
RATE_LIMIT_CALLS == 2000
RATE_LIMIT_WINDOW == 3600
EXPIRY_MARGIN == 300
DEFAULT_EXPIRES_IN == 3600
max_error_count == 3

\* Variant that counts a completed ride as active
ACTIVE_RIDE_STATUSES_with_completed ==
  {"processing", "accepted", "arriving", "in_progress", "completed"}

\* Variant without the accepted status
ACTIVE_RIDE_STATUSES_no_accepted == {"processing", "arriving", "in_progress"}

ACTIVE_RIDE_STATUSES == {"processing", "accepted", "arriving", "in_progress"}

ENDPOINT_CURRENT_REQUEST == "/v1.2/requests/current"
ENDPOINT_REQUEST_RECEIPT == "/v1.2/requests/{request_id}/receipt"
ENDPOINT_REQUEST_MAP == "/v1.2/requests/{request_id}/map"
ENDPOINT_TRIP_HISTORY == "/v1.2/history"

\* Python values that are not strings of the domain
None == "None"
Absent == "<absent>"
EmptyStr == ""

Truthy(x) == x \notin {None, Absent, EmptyStr}

\* ------------------------------------------------------------ exceptions
UberAPIErrorTypes ==
  {"UberAPIError", "UberRateLimitError", "UberAuthenticationError",
   "UberNoActiveRideError"}

IsUberAPIError(type) == type \in UberAPIErrorTypes

\* Outcome of a call: a value, or a raised exception (type, message).
\* UpdateFailed carries the message of the exception it wraps (cause).
NoResult == [kind |-> "none", type |-> "", msg |-> "", val |-> "", cause |-> ""]
Ok(v) == [kind |-> "ok", type |-> "", msg |-> "", val |-> v, cause |-> ""]
Raised(t, m) == [kind |-> "raised", type |-> t, msg |-> m, val |-> "", cause |-> ""]
UpdateFailed(prefix, err) ==
  [kind |-> "raised", type |-> "UpdateFailed", msg |-> err.msg, val |-> prefix,
   cause |-> err.type]

\* --------------------------------------------------- timestamps as text
isoformat(t) == [k |-> "iso", t |-> t]
NoExpiry == [k |-> "absent", t |-> 0]
GarbageExpiry == [k |-> "garbage", t |-> 0]

fromisoformat(s) ==
  IF s.k = "iso" THEN [ok |-> TRUE, t |-> s.t] ELSE [ok |-> FALSE, t |-> 0]

\* ========================================================= Token Manager
access_token(td) ==
  IF td.access_token = Absent THEN EmptyStr ELSE td.access_token

refresh_token(td) ==
  IF td.refresh_token = Absent THEN EmptyStr ELSE td.refresh_token

is_token_expired(td, t) ==
  IF td.token_expires.k = "absent" THEN TRUE
  ELSE IF ~fromisoformat(td.token_expires).ok THEN TRUE
  ELSE t >= fromisoformat(td.token_expires).t - EXPIRY_MARGIN


\* =========================================================== Ride Client
\* A raw ride payload: the keys the parser reads.  A nested object is
\* "missing" (key absent), "null", "empty" ({}) or "obj" (non-empty dict).
Nested == {"missing", "null", "empty", "obj"}

RawRide(st, rid, drv, veh, loc, pick, dest) ==
  [status |-> st, request_id |-> rid, driver |-> drv, vehicle |-> veh,
   location |-> loc, pickup |-> pick, destination |-> dest]

EmptyDict == RawRide(Absent, Absent, "missing", "missing", "missing",
                     "missing", "missing")

\* The argument None, in place of a dict
NoneRide == RawRide(None, None, None, None, None, None, None)

\* `not ride_data`: None or a dict without keys
IsFalsyDict(raw) == raw \in {NoneRide, EmptyDict}

\* d = ride_data.get(key, {}) followed by d.get(...): the fields read
NestedGet(n) == IF n = "obj" THEN "values" ELSE "nones"

DictGet(v) == IF v = Absent THEN None ELSE v

\* Variant with one value for every ride in progress
progress_flat(status, location) ==
  IF status = "completed" THEN 100
  ELSE IF status = "in_progress" THEN 50
  ELSE 0

progress(status, location) ==
  IF status = "completed" THEN 100
  ELSE IF status = "in_progress" /\ location = "obj" THEN 50
  ELSE 0

EmptyRecord ==
  [request_id |-> None, status |-> None, driver |-> "nones",
   vehicle |-> "nones", pickup |-> "nones", destination |-> "nones",
   location |-> "nones", progress_percentage |-> 0, receipt |-> Absent,
   map |-> Absent, empty |-> TRUE]

\* parse_ride_data: ok = FALSE stands for the AttributeError raised by
\* None.get(...) when a nested object is null.
parse_ride_data(raw) ==
  IF IsFalsyDict(raw) THEN [ok |-> TRUE, rec |-> EmptyRecord]
  ELSE IF "null" \in {raw.driver, raw.vehicle, raw.location, raw.pickup,
                      raw.destination}
  THEN [ok |-> FALSE, rec |-> EmptyRecord]
  ELSE [ok |-> TRUE,
        rec |-> [request_id |-> DictGet(raw.request_id),
                 status |-> DictGet(raw.status),
                 driver |-> NestedGet(raw.driver),
                 vehicle |-> NestedGet(raw.vehicle),
                 pickup |-> NestedGet(raw.pickup),
                 destination |-> NestedGet(raw.destination),
                 location |-> NestedGet(raw.location),
                 progress_percentage |->
                   progress(DictGet(raw.status), raw.location),
                 receipt |-> Absent, map |-> Absent, empty |-> FALSE]]

\* HTTP status -> outcome of _async_request (api.py 117-130).  message is
\* the body's "message" field, Absent when the body has none.
\* Variants of the status mapping
StatusOutcome_404_generic(status, endpoint, message) ==
  IF status = 401 THEN Raised("UberAuthenticationError", "Authentication failed")
  ELSE IF status = 429 THEN Raised("UberRateLimitError", "Rate limited")
  ELSE IF status = 404 THEN Raised("UberAPIError", "Resource not found")
  ELSE IF status >= 400 THEN
    Raised("UberAPIError", IF message = Absent THEN "HTTP status" ELSE message)
  ELSE Ok("json")

StatusOutcome_no_401(status, endpoint, message) ==
  IF status = 429 THEN Raised("UberRateLimitError", "Rate limited")
  ELSE IF status = 404 THEN
    IF endpoint = ENDPOINT_CURRENT_REQUEST
    THEN Raised("UberNoActiveRideError", "No active ride found")
    ELSE Raised("UberAPIError", "Resource not found")
  ELSE IF status >= 400 THEN
    Raised("UberAPIError", IF message = Absent THEN "HTTP status" ELSE message)
  ELSE Ok("json")

StatusOutcome_no_429(status, endpoint, message) ==
  IF status = 401 THEN Raised("UberAuthenticationError", "Authentication failed")
  ELSE IF status = 404 THEN
    IF endpoint = ENDPOINT_CURRENT_REQUEST
    THEN Raised("UberNoActiveRideError", "No active ride found")
    ELSE Raised("UberAPIError", "Resource not found")
  ELSE IF status >= 400 THEN
    Raised("UberAPIError", IF message = Absent THEN "HTTP status" ELSE message)
  ELSE Ok("json")

StatusOutcome(status, endpoint, message) ==
  IF status = 401 THEN Raised("UberAuthenticationError", "Authentication failed")
  ELSE IF status = 429 THEN Raised("UberRateLimitError", "Rate limited")
  ELSE IF status = 404 THEN
    IF endpoint = ENDPOINT_CURRENT_REQUEST
    THEN Raised("UberNoActiveRideError", "No active ride found")
    ELSE Raised("UberAPIError", "Resource not found")
  ELSE IF status >= 400 THEN
    Raised("UberAPIError", IF message = Absent THEN "HTTP status" ELSE message)
  ELSE Ok("json")


\* ================================================================= state
VARIABLES
  now,                   \* datetime.now(), seconds
  token_data,            \* UberOAuthManager._token_data
  rate_limit_remaining,  \* UberAPI._rate_limit_remaining
  rate_limit_reset,      \* UberAPI._rate_limit_reset
  error_count,           \* UberRideCoordinator._error_count
  last_status,           \* UberRideCoordinator._last_status
  update_interval,       \* DataUpdateCoordinator.update_interval, seconds
  data,                  \* DataUpdateCoordinator.data, the published record
  flow,                  \* per flow: where it is suspended, and its locals
  result,                \* the operation that ended in the latest step
  last_call,             \* the client call that ended last in that step
  ev,                    \* the ensure_valid call that ended in that step
  events,                \* the status-changed events of that step
  failStreak,            \* failed ticks since the last successful one
  refreshes_now,         \* refreshes of the tick flow since time last moved
  parse_io,              \* a direct call of parse_ride_data
  client,                \* UberAPIClient: its token fields and calls
  wizard                 \* UberRideTrackerConfigFlow: its fields and form

vars == <<now, token_data, rate_limit_remaining, rate_limit_reset,
          error_count, last_status, update_interval, data, flow, result,
          last_call, ev, events, failStreak, refreshes_now, parse_io,
          client, wizard>>

Flows == {"tick", "hist"}

St ==
  [now |-> now, token_data |-> token_data,
   rate_limit_remaining |-> rate_limit_remaining,
   rate_limit_reset |-> rate_limit_reset, error_count |-> error_count,
   last_status |-> last_status, update_interval |-> update_interval,
   data |-> data, flow |-> flow, result |-> result, last_call |-> last_call,
   ev |-> ev, events |-> events, failStreak |-> failStreak,
   refreshes_now |-> refreshes_now]

\* A call of parse_ride_data on its own: the argument, and once called
\* whether it returned (ok) and what
NoParse ==
  [arg |-> NoneRide, called |-> FALSE, ok |-> TRUE, rec |-> EmptyRecord]

\* UberAPIClient.__init__ (api_client.py 18-26).  pending: the ride
\* endpoint request in flight; exchanging: a token POST is in flight;
\* obs: what the latest step of the client did; cleared: a 401 has
\* cleared the token and no exchange has succeeded with a token since.
NoClientExpiry == [has |-> FALSE, expires_in |-> 0]

TokenFields(c) ==
  [access_token |-> c.access_token, refresh_token |-> c.refresh_token,
   token_expires |-> c.token_expires]

NoObs ==
  [op |-> "none", started |-> FALSE, ended |-> FALSE, http |-> FALSE,
   value |-> None, success |-> FALSE,
   before |-> [access_token |-> None, refresh_token |-> None,
               token_expires |-> NoClientExpiry]]

NewClient ==
  [access_token |-> None, refresh_token |-> None,
   token_expires |-> NoClientExpiry, pending |-> "none",
   exchanging |-> FALSE, obs |-> NoObs, cleared |-> FALSE]

\* UberRideTrackerConfigFlow.__init__ (config_flow.py 33-41).  A
\* credential is kept by the length of its stripped text.  step_id, errors
\* and outcome are the result the latest handler returned; steps lists the
\* step handlers entered so far, repeats of one step merged; exchange_status
\* is how the latest token exchange ended ("none" before the first).
NoTestResults ==
  [ran |-> FALSE, token_valid |-> FALSE, profile_access |-> FALSE,
   history_access |-> FALSE, current_ride |-> FALSE]

NoEntry ==
  [created |-> FALSE, client_id |-> 0, client_secret |-> 0,
   access_token |-> None, refresh_token |-> None]

NewWizard ==
  [client_id |-> 0, client_secret |-> 0, access_token |-> None,
   refresh_token |-> None, test_results |-> NoTestResults,
   step_id |-> "none", errors |-> "", outcome |-> "none",
   steps |-> <<>>, exchange_status |-> "none", entry |-> NoEntry]

Commit(s) ==
  /\ now' = s.now
  /\ token_data' = s.token_data
  /\ rate_limit_remaining' = s.rate_limit_remaining
  /\ rate_limit_reset' = s.rate_limit_reset
  /\ error_count' = s.error_count
  /\ last_status' = s.last_status
  /\ update_interval' = s.update_interval
  /\ data' = s.data
  /\ flow' = s.flow
  /\ result' = s.result
  /\ last_call' = s.last_call
  /\ ev' = s.ev
  /\ events' = s.events
  /\ failStreak' = s.failStreak
  /\ refreshes_now' = s.refreshes_now
  /\ parse_io' = parse_io
  /\ client' = client
  /\ wizard' = wizard

\* What the rate-limit gate of a call saw and did
NoGate == [kind |-> "none", exhausted |-> FALSE, before_reset |-> FALSE,
           rem |-> 0, window |-> 0]

\* What an ensure_valid call saw on entry
NoPre == [stale |-> FALSE, access |-> FALSE]

\* The interval and the last-known status an operation found on entry
NoBefore == [update_interval |-> 0, last_status |-> None]

IdleFlow ==
  [pc |-> "idle", stage |-> "none", endpoint |-> "", bearer |-> "",
   posted |-> "", nhttp |-> 0, npost |-> 0, gate |-> NoGate,
   pre |-> NoPre, parsed |-> <<>>, before |-> NoBefore]

NoEnsure ==
  [flow |-> "", st |-> "none", posted |-> FALSE, pre |-> NoPre,
   stale |-> FALSE, tok |-> ""]

\* The rate-limit headers of a reply
NoHeader == [has |-> FALSE, v |-> 0]
Header(v) == [has |-> TRUE, v |-> v]

\* remaining, reset: the rate-limit headers of the reply that ended the
\* call; budget, budget_reset: the counter as the call left it;
\* header_seen: a reply handled in this step carried X-Rate-Limit-Remaining
NoCall ==
  [flow |-> "", endpoint |-> "", nhttp |-> 0, npost |-> 0, gate |-> NoGate,
   status |-> 0, outcome |-> "", msg |-> "", stage |-> "",
   remaining |-> NoHeader, reset |-> NoHeader, budget |-> 0,
   budget_reset |-> 0, header_seen |-> FALSE]

NoData == [set |-> FALSE, has_active_ride |-> FALSE, ride |-> <<>>]

\* UberRideActiveBinarySensor.is_on over the published record
\* Variant that looks at has_active_ride only
is_on_any_ride(d) ==
  IF ~d.set THEN FALSE
  ELSE d.has_active_ride

is_on(d) ==
  IF ~d.set THEN FALSE
  ELSE IF ~d.has_active_ride THEN FALSE
  ELSE d.ride[1].status \in ACTIVE_RIDE_STATUSES

Min(a, b) == IF a < b THEN a ELSE b

\* "The stored expiry minus the 5-minute margin is not later than t, or the
\* expiry is missing or unparseable"
Stale(td, t) ==
  \/ td.token_expires.k # "iso"
  \/ td.token_expires.t - EXPIRY_MARGIN <= t

\* A step of a request: the new state, whether the call has ended, and
\* then its outcome and the JSON body it returned.
NoBody == [ride |-> EmptyDict, has_history |-> FALSE]

LogCall(s, f, status, res) ==
  [s EXCEPT !.last_call =
     [flow |-> f, endpoint |-> s.flow[f].endpoint,
      nhttp |-> s.flow[f].nhttp, npost |-> s.flow[f].npost,
      gate |-> s.flow[f].gate, status |-> status,
      outcome |-> IF res.kind = "ok" THEN "ok" ELSE res.type,
      msg |-> res.msg, stage |-> s.flow[f].stage,
      remaining |-> NoHeader, reset |-> NoHeader,
      budget |-> s.rate_limit_remaining,
      budget_reset |-> s.rate_limit_reset,
      header_seen |-> s.last_call.header_seen]]

Finished(s, f, status, res, body) ==
  [s |-> LogCall(s, f, status, res), done |-> TRUE, res |-> res,
   body |-> body]

Suspended(s) == [s |-> s, done |-> FALSE, res |-> NoResult, body |-> NoBody]

\* ------------------------------------------------ oauth.py, ensure_valid
\* get_authorization_header + session.request: the request goes out and
\* the flow is suspended until the reply.
IssueHttp(s, f) ==
  Suspended([s EXCEPT !.flow[f].pc = "http",
                      !.flow[f].bearer = access_token(s.token_data),
                      !.flow[f].nhttp = @ + 1])

\* async_ensure_valid_token up to its first await
async_ensure_valid_token(s, f) ==
  LET pre == [stale |-> Stale(s.token_data, s.now),
              access |-> Truthy(access_token(s.token_data))]
      e0 == [flow |-> f, st |-> "returned", posted |-> FALSE, pre |-> pre,
             stale |-> Stale(s.token_data, s.now),
             tok |-> access_token(s.token_data)]
  IN IF is_token_expired(s.token_data, s.now)
     THEN IF ~Truthy(refresh_token(s.token_data))
          THEN Finished([s EXCEPT !.ev = [e0 EXCEPT !.st = "raised"]],
                        f, 0,
                        Raised("ValueError", "No refresh token available"),
                        NoBody)
          ELSE Suspended([s EXCEPT
                 !.flow[f].pc = "refresh",
                 !.flow[f].pre = pre,
                 !.flow[f].posted = refresh_token(s.token_data),
                 !.flow[f].npost = @ + 1])
     ELSE IssueHttp([s EXCEPT !.ev = e0], f)

\* The token endpoint's reply to the refresh POST
NoExpiresIn == [has |-> FALSE, v |-> 0]

TokenReplies ==
  [kind : {"ok"}, status : {200}, access_token : {"AT1"},
   refresh_token : {Absent, "RT1"},
   expires_in : {NoExpiresIn, [has |-> TRUE, v |-> 60]}]
  \cup
  [kind : {"http_error"}, status : {400}, access_token : {Absent},
   refresh_token : {Absent}, expires_in : {NoExpiresIn}]
  \cup
  [kind : {"transport"}, status : {0}, access_token : {Absent},
   refresh_token : {Absent}, expires_in : {NoExpiresIn}]

\* async_refresh_access_token from the reply on, then the rest of
\* async_ensure_valid_token and the request that follows it
\* Variant that forgets the access token when the refresh fails
async_refresh_access_token_drops_token(s, f, resp) ==
  IF resp.kind = "ok"
  THEN LET td == [access_token |-> DictGet(resp.access_token),
                  refresh_token |->
                    IF resp.refresh_token # Absent
                    THEN resp.refresh_token
                    ELSE s.token_data.refresh_token,
                  token_expires |->
                    isoformat(s.now + (IF resp.expires_in.has
                                       THEN resp.expires_in.v
                                       ELSE DEFAULT_EXPIRES_IN))]
       IN IssueHttp([s EXCEPT
            !.token_data = td,
            !.refreshes_now =
              IF f = "tick" THEN Min(@ + 1, RefreshCap) ELSE @,
            !.ev = [flow |-> f, st |-> "returned", posted |-> TRUE,
                    pre |-> s.flow[f].pre, stale |-> Stale(td, s.now),
                    tok |-> access_token(td)]], f)
  ELSE Finished([s EXCEPT
                   !.token_data.access_token = None,
                   !.ev = [flow |-> f, st |-> "raised", posted |-> TRUE,
                           pre |-> s.flow[f].pre,
                           stale |-> Stale(s.token_data, s.now),
                           tok |-> access_token(s.token_data)]],
                f, 0,
                Raised(IF resp.kind = "http_error"
                       THEN "ClientResponseError" ELSE "ClientError",
                       "token request failed"),
                NoBody)

async_refresh_access_token(s, f, resp) ==
  IF resp.kind = "ok"
  THEN LET td == [access_token |-> DictGet(resp.access_token),
                  refresh_token |->
                    IF resp.refresh_token # Absent
                    THEN resp.refresh_token
                    ELSE s.token_data.refresh_token,
                  token_expires |->
                    isoformat(s.now + (IF resp.expires_in.has
                                       THEN resp.expires_in.v
                                       ELSE DEFAULT_EXPIRES_IN))]
       IN IssueHttp([s EXCEPT
            !.token_data = td,
            !.refreshes_now =
              IF f = "tick" THEN Min(@ + 1, RefreshCap) ELSE @,
            !.ev = [flow |-> f, st |-> "returned", posted |-> TRUE,
                    pre |-> s.flow[f].pre, stale |-> Stale(td, s.now),
                    tok |-> access_token(td)]], f)
  ELSE Finished([s EXCEPT
                   !.ev = [flow |-> f, st |-> "raised", posted |-> TRUE,
                           pre |-> s.flow[f].pre,
                           stale |-> Stale(s.token_data, s.now),
                           tok |-> access_token(s.token_data)]],
                f, 0,
                Raised(IF resp.kind = "http_error"
                       THEN "ClientResponseError" ELSE "ClientError",
                       "token request failed"),
                NoBody)

\* ---------------------------------------------- api.py, _async_request
\* The local rate-limit gate (api.py 79-90)
GateKind_negative_only(rem, rst, t) ==
  IF rem < 0 THEN (IF t < rst THEN "failfast" ELSE "reset") ELSE "pass"

GateKind(rem, rst, t) ==
  IF rem <= 0 THEN (IF t < rst THEN "failfast" ELSE "reset") ELSE "pass"

\* _async_request up to its first await
\* Variant that sends the request with whatever token is stored
async_request_no_ensure(s, f, endpoint) ==
  LET kind == GateKind(s.rate_limit_remaining, s.rate_limit_reset, s.now)
      rem1 == IF kind = "reset" THEN RATE_LIMIT_CALLS
              ELSE s.rate_limit_remaining
      rst1 == IF kind = "reset" THEN s.now + RATE_LIMIT_WINDOW
              ELSE s.rate_limit_reset
      gate == [kind |-> kind,
               exhausted |-> s.rate_limit_remaining <= 0,
               before_reset |-> s.now < s.rate_limit_reset,
               rem |-> IF kind = "reset" THEN rem1 ELSE 0,
               window |-> IF kind = "reset" THEN rst1 - s.now ELSE 0]
      s1 == [s EXCEPT !.flow[f].endpoint = endpoint,
                      !.flow[f].nhttp = 0, !.flow[f].npost = 0,
                      !.flow[f].gate = gate,
                      !.rate_limit_remaining = rem1,
                      !.rate_limit_reset = rst1]
  IN IF kind = "failfast"
     THEN Finished(s1, f, 0,
                   Raised("UberRateLimitError", "Rate limited for seconds"),
                   NoBody)
     ELSE IssueHttp(s1, f)

\* Variant that spends one call of the budget on every request
async_request_counts_down(s, f, endpoint) ==
  LET kind == GateKind(s.rate_limit_remaining, s.rate_limit_reset, s.now)
      rem1 == IF kind = "reset" THEN RATE_LIMIT_CALLS - 1
              ELSE IF kind = "pass" THEN s.rate_limit_remaining - 1
              ELSE s.rate_limit_remaining
      rst1 == IF kind = "reset" THEN s.now + RATE_LIMIT_WINDOW
              ELSE s.rate_limit_reset
      gate == [kind |-> kind,
               exhausted |-> s.rate_limit_remaining <= 0,
               before_reset |-> s.now < s.rate_limit_reset,
               rem |-> IF kind = "reset" THEN rem1 ELSE 0,
               window |-> IF kind = "reset" THEN rst1 - s.now ELSE 0]
      s1 == [s EXCEPT !.flow[f].endpoint = endpoint,
                      !.flow[f].nhttp = 0, !.flow[f].npost = 0,
                      !.flow[f].gate = gate,
                      !.rate_limit_remaining = rem1,
                      !.rate_limit_reset = rst1]
  IN IF kind = "failfast"
     THEN Finished(s1, f, 0,
                   Raised("UberRateLimitError", "Rate limited for seconds"),
                   NoBody)
     ELSE async_ensure_valid_token(s1, f)

async_request(s, f, endpoint) ==
  LET kind == GateKind(s.rate_limit_remaining, s.rate_limit_reset, s.now)
      rem1 == IF kind = "reset" THEN RATE_LIMIT_CALLS
              ELSE s.rate_limit_remaining
      rst1 == IF kind = "reset" THEN s.now + RATE_LIMIT_WINDOW
              ELSE s.rate_limit_reset
      gate == [kind |-> kind,
               exhausted |-> s.rate_limit_remaining <= 0,
               before_reset |-> s.now < s.rate_limit_reset,
               rem |-> IF kind = "reset" THEN rem1 ELSE 0,
               window |-> IF kind = "reset" THEN rst1 - s.now ELSE 0]
      s1 == [s EXCEPT !.flow[f].endpoint = endpoint,
                      !.flow[f].nhttp = 0, !.flow[f].npost = 0,
                      !.flow[f].gate = gate,
                      !.rate_limit_remaining = rem1,
                      !.rate_limit_reset = rst1]
  IN IF kind = "failfast"
     THEN Finished(s1, f, 0,
                   Raised("UberRateLimitError", "Rate limited for seconds"),
                   NoBody)
     ELSE async_ensure_valid_token(s1, f)

\* Reply handling of _async_request (api.py 109-137).  Replies carry
\* integer rate-limit headers and JSON bodies.
\* Variant that reads the headers of successful replies only
async_request_reply_ok_headers(s, f, resp) ==
  IF resp.kind = "timeout"
  THEN Finished(s, f, 0, Raised("UberAPIError", "Request timeout"), NoBody)
  ELSE IF resp.kind = "client_error"
  THEN Finished(s, f, 0, Raised("UberAPIError", "Request failed"), NoBody)
  ELSE LET out == StatusOutcome(resp.status, s.flow[f].endpoint, resp.message)
           s1 == [s EXCEPT
                    !.rate_limit_remaining =
                      IF resp.remaining.has /\ out.kind = "ok"
                      THEN resp.remaining.v ELSE @,
                    !.rate_limit_reset =
                      IF resp.reset.has /\ out.kind = "ok"
                      THEN resp.reset.v ELSE @]
           r == Finished(s1, f, resp.status, out,
                         IF out.kind = "ok" THEN resp.body ELSE NoBody)
       IN [r EXCEPT !.s.last_call.remaining = resp.remaining,
                    !.s.last_call.reset = resp.reset,
                    !.s.last_call.header_seen = resp.remaining.has]

async_request_reply(s, f, resp) ==
  IF resp.kind = "timeout"
  THEN Finished(s, f, 0, Raised("UberAPIError", "Request timeout"), NoBody)
  ELSE IF resp.kind = "client_error"
  THEN Finished(s, f, 0, Raised("UberAPIError", "Request failed"), NoBody)
  ELSE LET s1 == [s EXCEPT
                    !.rate_limit_remaining =
                      IF resp.remaining.has THEN resp.remaining.v ELSE @,
                    !.rate_limit_reset =
                      IF resp.reset.has THEN resp.reset.v ELSE @]
           out == StatusOutcome(resp.status, s.flow[f].endpoint, resp.message)
           r == Finished(s1, f, resp.status, out,
                         IF out.kind = "ok" THEN resp.body ELSE NoBody)
       IN [r EXCEPT !.s.last_call.remaining = resp.remaining,
                    !.s.last_call.reset = resp.reset,
                    !.s.last_call.header_seen = resp.remaining.has]

\* =========================================================== Coordinator
\* How an operation of flow f ended, and in which stage it was then
EndOp(f, stage, res) ==
  [flow |-> f, stage |-> stage, kind |-> res.kind, type |-> res.type,
   msg |-> res.msg, val |-> res.val, cause |-> res.cause,
   before |-> NoBefore]

NoOp == EndOp("", "", NoResult)

\* The state a step starts from: nothing observed yet
Fresh == [St EXCEPT !.result = NoOp, !.last_call = NoCall, !.ev = NoEnsure,
                    !.events = <<>>]

\* `return {...}` of _async_update_data: the host publishes the record
\* (its last_update timestamp is left out)
TickReturn(s, ride, active) ==
  [s EXCEPT !.data = [set |-> TRUE, has_active_ride |-> active,
                      ride |-> ride],
            !.result = [EndOp("tick", s.flow["tick"].stage, Ok("data"))
                          EXCEPT !.before = s.flow["tick"].before],
            !.flow["tick"] = IdleFlow,
            !.failStreak = 0]

\* No active ride: coordinator.py 100-120
\* Variant that leaves the interval as it is
TickNoRide_keep_interval(s) ==
  TickReturn([s EXCEPT !.last_status = None], <<>>, FALSE)

TickNoRide(s) ==
  TickReturn([s EXCEPT !.last_status = None,
                       !.update_interval = UPDATE_INTERVAL_INACTIVE],
             <<>>, FALSE)

\* The two failure handlers: coordinator.py 122-140
TickFail(s, err) ==
  LET n == s.error_count + 1
  IN [s EXCEPT
        !.error_count = n,
        !.update_interval =
          IF n >= max_error_count THEN UPDATE_INTERVAL_ERROR ELSE @,
        !.result =
          [EndOp("tick", s.flow["tick"].stage,
                 UpdateFailed(IF IsUberAPIError(err.type)
                              THEN "Error communicating with Uber API"
                              ELSE "Unexpected error", err))
           EXCEPT !.before = s.flow["tick"].before],
        !.flow["tick"] = IdleFlow,
        !.failStreak = Min(@ + 1, MaxStreak)]

\* Variant without the catch-all clause: other exceptions leave as they are
TickExcept_api_errors_only(s, err) ==
  IF err.type = "UberNoActiveRideError" THEN TickNoRide(s)
  ELSE IF IsUberAPIError(err.type) THEN TickFail(s, err)
  ELSE [s EXCEPT !.result = [EndOp("tick", s.flow["tick"].stage, err)
                              EXCEPT !.before = s.flow["tick"].before],
                 !.flow["tick"] = IdleFlow,
                 !.failStreak = Min(@ + 1, MaxStreak)]

\* The except clauses of _async_update_data, in order
TickExcept(s, err) ==
  IF err.type = "UberNoActiveRideError" THEN TickNoRide(s)
  ELSE TickFail(s, err)

\* After async_get_ride_map: coordinator.py 87-98
TickAfterMap(s, res) ==
  LET parsed == s.flow["tick"].parsed[1]
  IN IF res.kind = "ok"
     THEN TickReturn(s, <<[parsed EXCEPT !.map = "map_data"]>>, TRUE)
     ELSE IF IsUberAPIError(res.type)
     THEN TickReturn(s, <<parsed>>, TRUE)
     ELSE TickExcept(s, res)

TickStartMap(s) ==
  LET r == async_request([s EXCEPT !.flow["tick"].stage = "map"], "tick",
                         ENDPOINT_REQUEST_MAP)
  IN IF r.done THEN TickAfterMap(r.s, r.res) ELSE r.s

\* After async_get_ride_receipt: coordinator.py 79-86
TickAfterReceipt(s, res) ==
  IF res.kind = "ok"
  THEN TickStartMap([s EXCEPT !.flow["tick"].parsed[1].receipt =
                                "receipt_data"])
  ELSE IF IsUberAPIError(res.type)
  THEN TickStartMap(s)
  ELSE TickExcept(s, res)

TickStartReceipt(s) ==
  LET r == async_request([s EXCEPT !.flow["tick"].stage = "receipt"],
                         "tick", ENDPOINT_REQUEST_RECEIPT)
  IN IF r.done THEN TickAfterReceipt(r.s, r.res) ELSE r.s

\* "Ride status changed from %s to %s" (coordinator.py 58-65): the events
\* a tick surfaces when it has read current_status
\* Variant that reports every observation
log_status_change_every(last, current_status) ==
  <<<<last, current_status>>>>

log_status_change(last, current_status) ==
  IF current_status # last
  THEN <<<<last, current_status>>>>
  ELSE <<>>

\* A ride was returned: coordinator.py 53-98
TickRide(s, raw) ==
  LET p == parse_ride_data(raw)
      current_status == p.rec.status
      s1 == [s EXCEPT
               !.events = @ \o log_status_change(s.last_status,
                                                 current_status),
               !.last_status = current_status,
               !.update_interval =
                 IF current_status \in ACTIVE_RIDE_STATUSES
                 THEN UPDATE_INTERVAL_ACTIVE
                 ELSE UPDATE_INTERVAL_INACTIVE,
               !.flow["tick"].parsed = <<p.rec>>]
  IN IF ~p.ok
     THEN TickExcept(s, Raised("AttributeError",
                               "NoneType object has no attribute get"))
     ELSE IF current_status \in ACTIVE_RIDE_STATUSES
             /\ Truthy(p.rec.request_id)
     THEN TickStartReceipt(s1)
     ELSE TickReturn(s1, <<p.rec>>, TRUE)

\* async_get_current_ride (api.py 139-148): a no-active-ride error is the
\* result None, every other error is raised again
async_get_current_ride(res) ==
  IF res.kind = "raised" /\ res.type = "UberNoActiveRideError"
  THEN Ok(None)
  ELSE res

\* After async_get_current_ride: coordinator.py 51-53, 100
TickAfterCurrent(s, res0, body) ==
  LET res == async_get_current_ride(res0)
  IN IF res.kind = "raised" THEN TickExcept(s, res)
     ELSE IF res.val # None /\ ~IsFalsyDict(body.ride)
     THEN TickRide(s, body.ride)
     ELSE TickNoRide(s)

\* async_get_ride_history: coordinator.py 147-153 over api.py 169-175
\* Variant that counts a failed fetch as a poll error
HistAfter_counts_error(s, res) ==
  [s EXCEPT
     !.result =
       EndOp("hist", s.flow["hist"].stage,
             IF res.kind = "ok" THEN Ok("history")
             ELSE IF IsUberAPIError(res.type)
             THEN UpdateFailed("Failed to get ride history", res)
             ELSE res),
     !.error_count = IF res.kind = "ok" THEN @ ELSE @ + 1,
     !.flow["hist"] = IdleFlow]

HistAfter(s, res) ==
  [s EXCEPT
     !.result =
       EndOp("hist", s.flow["hist"].stage,
             IF res.kind = "ok" THEN Ok("history")
             ELSE IF IsUberAPIError(res.type)
             THEN UpdateFailed("Failed to get ride history", res)
             ELSE res),
     !.flow["hist"] = IdleFlow]

\* The code that runs when the awaited call of flow f has ended
Continue(s, f, res, body) ==
  CASE s.flow[f].stage = "current" -> TickAfterCurrent(s, res, body)
    [] s.flow[f].stage = "receipt" -> TickAfterReceipt(s, res)
    [] s.flow[f].stage = "map" -> TickAfterMap(s, res)
    [] OTHER -> HistAfter(s, res)

Resume(f, r) ==
  Commit(IF r.done THEN Continue(r.s, f, r.res, r.body) ELSE r.s)

\* ================================================================ inputs
\* Bodies the current-ride endpoint answers a 200 with
RidePayloads ==
  {RawRide("arriving", "r1", "obj", "obj", "obj", "obj", "obj"),
   RawRide("completed", "r1", "obj", "obj", "obj", "obj", "obj"),
   RawRide("accepted", Absent, "missing", "missing", "missing", "missing",
           "missing"),
   RawRide("arriving", "r1", "null", "obj", "obj", "obj", "obj"),
   RawRide("in_progress", Absent, "obj", "obj", "missing", "obj", "obj"),
   RawRide("processing", Absent, "missing", "missing", "missing", "missing",
           "missing"),
   EmptyDict}

HeaderSets ==
  {<<NoHeader, NoHeader>>, <<Header(0), NoHeader>>,
   <<Header(0), Header(1800)>>}

HttpReply(kind, status, h, message, body) ==
  [kind |-> kind, status |-> status, remaining |-> h[1], reset |-> h[2],
   message |-> message, body |-> body]

\* What the network can answer to a request to endpoint
HttpReplies(endpoint) ==
  {HttpReply(k, 0, <<NoHeader, NoHeader>>, Absent, NoBody) :
     k \in {"timeout", "client_error"}}
  \cup {HttpReply("response", st, h, Absent, NoBody) :
          st \in {401, 404, 429}, h \in HeaderSets}
  \cup {HttpReply("response", 500, h, m, NoBody) :
          h \in HeaderSets, m \in {Absent, "server message"}}
  \cup IF endpoint = ENDPOINT_CURRENT_REQUEST
       THEN {HttpReply("response", 200, h, Absent,
                       [ride |-> raw, has_history |-> FALSE]) :
               h \in HeaderSets, raw \in RidePayloads}
       ELSE {HttpReply("response", 200, h, Absent,
                       [ride |-> EmptyDict, has_history |-> TRUE]) :
               h \in HeaderSets}

InitialTokens ==
  [access_token : {Absent, "AT0"}, refresh_token : {Absent, "RT0"},
   token_expires : {NoExpiry, GarbageExpiry, isoformat(300),
                    isoformat(3600)}]

TimeSteps == {1800}

\* =============================================================== actions
Init ==
  /\ now = 0
  /\ token_data \in InitialTokens
  /\ rate_limit_remaining = RATE_LIMIT_CALLS
  /\ rate_limit_reset = 0 + RATE_LIMIT_WINDOW
  /\ error_count = 0
  /\ last_status = None
  /\ update_interval = UPDATE_INTERVAL_INACTIVE
  /\ data = NoData
  /\ flow = [f \in Flows |-> IdleFlow]
  /\ result = NoOp
  /\ last_call = NoCall
  /\ ev = NoEnsure
  /\ events = <<>>
  /\ failStreak = 0
  /\ refreshes_now = 0
  /\ parse_io = NoParse
  /\ client = NewClient
  /\ wizard = NewWizard

\* The host's timer fires: _async_update_data runs to its first await
TickStart ==
  /\ flow["tick"].pc = "idle"
  /\ LET s0 == [Fresh EXCEPT
                 !.error_count = 0,
                 !.flow["tick"].stage = "current",
                 !.flow["tick"].before =
                   [update_interval |-> update_interval,
                    last_status |-> last_status]]
     IN Resume("tick", async_request(s0, "tick", ENDPOINT_CURRENT_REQUEST))

\* The get_ride_history service is called
HistoryStart ==
  /\ flow["hist"].pc = "idle"
  /\ LET s0 == [Fresh EXCEPT !.flow["hist"].stage = "history"]
     IN Resume("hist", async_request(s0, "hist", ENDPOINT_TRIP_HISTORY))

\* The token endpoint answers the refresh POST of flow f
TokenReply(f, resp) ==
  /\ flow[f].pc = "refresh"
  /\ Resume(f, async_refresh_access_token(Fresh, f, resp))

\* A ride endpoint answers the request of flow f
HttpResponse(f, resp) ==
  /\ flow[f].pc = "http"
  /\ Resume(f, async_request_reply(Fresh, f, resp))

\* Time passes
AdvanceTime(d) ==
  /\ now + d <= MaxTime
  /\ Commit([Fresh EXCEPT !.now = now + d, !.refreshes_now = 0])

\* The poll loop alone
Next ==
  \/ TickStart
  \/ \E resp \in TokenReplies : TokenReply("tick", resp)
  \/ \E resp \in HttpReplies(flow["tick"].endpoint) :
       HttpResponse("tick", resp)
  \/ \E d \in TimeSteps : AdvanceTime(d)

Spec == Init /\ [][Next]_vars

\* The poll loop together with the on-demand history fetch, over fewer
\* token states and replies
OnDemandTokens ==
  {[access_token |-> "AT0", refresh_token |-> "RT0",
    token_expires |-> isoformat(3600)],
   [access_token |-> "AT0", refresh_token |-> "RT0",
    token_expires |-> isoformat(300)]}

OnDemandTokenReplies ==
  {r \in TokenReplies : r.kind # "transport" /\ ~r.expires_in.has}

OnDemandReplies(endpoint) ==
  {r \in HttpReplies(endpoint) :
     /\ ~r.remaining.has
     /\ r.status \in {0, 200, 401, 404}
     /\ r.body.ride \in {EmptyDict,
                         RawRide("arriving", "r1", "obj", "obj", "obj",
                                 "obj", "obj")}}

InitOnDemand == Init /\ token_data \in OnDemandTokens

NextOnDemand ==
  \/ TickStart
  \/ HistoryStart
  \/ \E f \in Flows, resp \in OnDemandTokenReplies : TokenReply(f, resp)
  \/ \E f \in Flows : \E resp \in OnDemandReplies(flow[f].endpoint) :
       HttpResponse(f, resp)
  \/ \E d \in TimeSteps : AdvanceTime(d)

SpecOnDemand == InitOnDemand /\ [][NextOnDemand]_vars

\* The parser alone, applied to None and to every payload over the keys
\* it reads.
RideStatuses ==
  {"processing", "no_drivers_available", "accepted", "arriving",
   "in_progress", "driver_canceled", "rider_canceled", "completed"}

ParseArgs ==
  {NoneRide} \cup
  {RawRide(st, rid, drv, veh, loc, pick, dest) :
     st \in RideStatuses \cup {Absent}, rid \in {Absent, "r1"},
     drv \in Nested, veh \in Nested, loc \in Nested, pick \in Nested,
     dest \in Nested}

InitParse ==
  /\ now = 0
  /\ token_data = CHOOSE td \in InitialTokens : TRUE
  /\ rate_limit_remaining = RATE_LIMIT_CALLS
  /\ rate_limit_reset = 0 + RATE_LIMIT_WINDOW
  /\ error_count = 0
  /\ last_status = None
  /\ update_interval = UPDATE_INTERVAL_INACTIVE
  /\ data = NoData
  /\ flow = [f \in Flows |-> IdleFlow]
  /\ result = NoOp
  /\ last_call = NoCall
  /\ ev = NoEnsure
  /\ events = <<>>
  /\ failStreak = 0
  /\ refreshes_now = 0
  /\ parse_io \in {[NoParse EXCEPT !.arg = a] : a \in ParseArgs}
  /\ client = NewClient
  /\ wizard = NewWizard

ParseCall ==
  /\ ~parse_io.called
  /\ LET p == parse_ride_data(parse_io.arg)
     IN parse_io' = [arg |-> parse_io.arg, called |-> TRUE, ok |-> p.ok,
                     rec |-> p.rec]
  /\ UNCHANGED <<now, token_data, rate_limit_remaining, rate_limit_reset,
                 error_count, last_status, update_interval, data, flow,
                 result, last_call, ev, events, failStreak, refreshes_now,
                 client, wizard>>

NextParse == ParseCall

SpecParse == InitParse /\ [][NextParse]_vars


\* ===================================================== api_client.py
\* The poll loop at rest, for the specifications of the other components
PollerAtRest ==
  /\ now = 0
  /\ token_data = CHOOSE td \in InitialTokens : TRUE
  /\ rate_limit_remaining = RATE_LIMIT_CALLS
  /\ rate_limit_reset = 0 + RATE_LIMIT_WINDOW
  /\ error_count = 0
  /\ last_status = None
  /\ update_interval = UPDATE_INTERVAL_INACTIVE
  /\ data = NoData
  /\ flow = [f \in Flows |-> IdleFlow]
  /\ result = NoOp
  /\ last_call = NoCall
  /\ ev = NoEnsure
  /\ events = <<>>
  /\ failStreak = 0
  /\ refreshes_now = 0
  /\ parse_io = NoParse

PollerUnchanged ==
  UNCHANGED <<now, token_data, rate_limit_remaining, rate_limit_reset,
              error_count, last_status, update_interval, data, flow,
              result, last_call, ev, events, failStreak, refreshes_now,
              parse_io>>

\* test_connection (api_client.py 28-66) builds the authorization URL and
\* returns it: no request, no change of the token fields
test_connection(c) == c

RideOps == {"current", "receipt", "history"}

Returns(c, op, value) ==
  [c EXCEPT !.obs = [NoObs EXCEPT !.op = op, !.started = TRUE,
                                  !.ended = TRUE, !.value = value]]

Sends(c, op) ==
  [c EXCEPT !.pending = op,
            !.obs = [NoObs EXCEPT !.op = op, !.started = TRUE,
                                  !.http = TRUE]]

\* get_current_ride up to its request (api_client.py 117-137)
get_current_ride(c) ==
  LET c1 == IF ~Truthy(c.access_token) THEN test_connection(c) ELSE c
  IN IF ~Truthy(c1.access_token)
     THEN Returns(c1, "current", None)
     ELSE Sends(c1, "current")

\* get_ride_receipt up to its request (api_client.py 242-250)
get_ride_receipt(c, request_id) ==
  IF ~Truthy(c.access_token) \/ ~Truthy(request_id)
  THEN Returns(c, "receipt", None)
  ELSE Sends(c, "receipt")

\* get_ride_history up to its request (api_client.py 360-370)
get_ride_history(c) ==
  LET c1 == IF ~Truthy(c.access_token) THEN test_connection(c) ELSE c
  IN IF ~Truthy(c1.access_token)
     THEN Returns(c1, "history", None)
     ELSE Sends(c1, "history")

\* The reply to the pending ride request: status 0 stands for an
\* exception of the session (api_client.py 139-166, 252-263, 372-396)
ride_reply(c, status) ==
  LET op == c.pending
      unauthorized == op = "current" /\ status = 401
      value ==
        CASE op = "current" ->
               IF status = 200 THEN "ride"
               ELSE IF status = 404 THEN "no_active_ride"
               ELSE None
          [] op = "receipt" -> IF status = 200 THEN "receipt" ELSE None
          [] OTHER -> IF status = 200 THEN "history" ELSE "error"
  IN [c EXCEPT
        !.access_token = IF unauthorized THEN None ELSE @,
        !.cleared = IF unauthorized THEN TRUE ELSE @,
        !.pending = "none",
        !.obs = [NoObs EXCEPT !.op = op, !.ended = TRUE, !.value = value]]

\* The token endpoint's reply to exchange_auth_code.  expires_in is
\* absent, a number of seconds (7200) or a JSON value that is not a
\* number, such as the string "7200".
ExpiresInNumber == 7200

ExchangeReplies ==
  [status : {200}, access_token : {Absent, "AT1"},
   refresh_token : {Absent, "RT1"},
   expires_in : {Absent, "number", "string"}]
  \cup
  [status : {0, 400}, access_token : {Absent}, refresh_token : {Absent},
   expires_in : {Absent}]

\* exchange_auth_code from the reply on (api_client.py 87-115): the
\* assignments of lines 89-92 in order, timedelta(seconds=expires_in)
\* raising TypeError for a value that is not a number, and the handler of
\* line 110 turning every exception into {"success": False}
exchange_auth_code_reply(c, resp) ==
  LET before == TokenFields(c)
      done(c1, ok) ==
        [c1 EXCEPT
           !.exchanging = FALSE,
           !.cleared = IF ok /\ Truthy(c1.access_token) THEN FALSE ELSE @,
           !.obs = [NoObs EXCEPT !.op = "exchange", !.ended = TRUE,
                                 !.success = ok, !.before = before]]
  IN IF resp.status # 200 THEN done(c, FALSE)
     ELSE LET c1 == [c EXCEPT
                       !.access_token = DictGet(resp.access_token),
                       !.refresh_token = DictGet(resp.refresh_token)]
              expires_in == IF resp.expires_in = Absent
                            THEN DEFAULT_EXPIRES_IN
                            ELSE ExpiresInNumber
          IN IF resp.expires_in = "string"
             THEN done(c1, FALSE)
             ELSE done([c1 EXCEPT !.token_expires =
                          [has |-> TRUE, expires_in |-> expires_in]], TRUE)

\* __init__.py 34-55: the client is built and takes the access token of
\* the config entry when it has one
InitClient ==
  /\ PollerAtRest
  /\ wizard = NewWizard
  /\ client \in {NewClient, [NewClient EXCEPT !.access_token = "AT0"]}

ClientCall ==
  /\ client.pending = "none"
  /\ \/ client' = get_current_ride(client)
     \/ \E request_id \in {EmptyStr, "r1"} :
          client' = get_ride_receipt(client, request_id)
     \/ client' = get_ride_history(client)
  /\ PollerUnchanged /\ UNCHANGED wizard

ClientReply ==
  /\ client.pending # "none"
  /\ \E status \in {0, 200, 401, 404, 500} :
       client' = ride_reply(client, status)
  /\ PollerUnchanged /\ UNCHANGED wizard

ExchangeStart ==
  /\ ~client.exchanging
  /\ client' = [client EXCEPT
                  !.exchanging = TRUE,
                  !.obs = [NoObs EXCEPT !.op = "exchange",
                                        !.started = TRUE, !.http = TRUE]]
  /\ PollerUnchanged /\ UNCHANGED wizard

ExchangeReply ==
  /\ client.exchanging
  /\ \E resp \in ExchangeReplies :
       client' = exchange_auth_code_reply(client, resp)
  /\ PollerUnchanged /\ UNCHANGED wizard

NextClient == ClientCall \/ ClientReply \/ ExchangeStart \/ ExchangeReply

SpecClient == InitClient /\ [][NextClient]_vars


\* ===================================================== config_flow.py
\* async_show_form(step_id=..., errors=...)
ShowForm(w, step_id, errors) ==
  [w EXCEPT !.step_id = step_id, !.errors = errors, !.outcome = "form"]

\* A step handler is entered
Enter(w, step) ==
  [w EXCEPT !.steps = IF @ # <<>> /\ @[Len(@)] = step
                      THEN @ ELSE Append(@, step)]

\* What the network answers while one submission is handled: the token
\* endpoint's reply and the statuses of the three test requests; status 0
\* stands for an exception of the session
WizardReplies ==
  ([status : {200}, access_token : {Absent, "AT1"},
    refresh_token : {Absent, "RT1"}]
   \cup
   [status : {0, 400}, access_token : {Absent}, refresh_token : {Absent}])

TestStatuses ==
  [profile : {0, 200, 401}, history : {0, 200, 401},
   current : {200, 404, 401}]

NoUserInput == [given |-> FALSE, client_id |-> 0, client_secret |-> 0]

\* async_step_complete (config_flow.py 177-211); _setup_card catches
\* every exception of its own
async_step_complete(w, given) ==
  LET w1 == Enter(w, "complete")
  IN IF given
     THEN [w1 EXCEPT
             !.outcome = "create_entry",
             !.entry = [created |-> TRUE, client_id |-> w.client_id,
                        client_secret |-> w.client_secret,
                        access_token |-> w.access_token,
                        refresh_token |-> w.refresh_token]]
     ELSE ShowForm(w1, "complete", "")

\* _test_api_access (config_flow.py 260-372)
test_api_access(w, net) ==
  [ran |-> TRUE,
   token_valid |-> w.access_token # None,
   profile_access |-> net.profile = 200,
   history_access |-> net.history = 200,
   current_ride |-> net.current \in {200, 404}]

\* async_step_test (config_flow.py 140-175)
\* Variant whose critical tests leave out the history test
async_step_test_no_history(w, net) ==
  LET results == test_api_access(w, net)
      w1 == [Enter(w, "test") EXCEPT !.test_results = results]
      all_passed == results.token_valid /\ results.profile_access
  IN IF all_passed
     THEN async_step_complete(w1, FALSE)
     ELSE ShowForm(w1, "test", "tests_failed")

async_step_test(w, net) ==
  LET results == test_api_access(w, net)
      w1 == [Enter(w, "test") EXCEPT !.test_results = results]
      all_passed == /\ results.token_valid
                    /\ results.profile_access
                    /\ results.history_access
  IN IF all_passed
     THEN async_step_complete(w1, FALSE)
     ELSE ShowForm(w1, "test", "tests_failed")

\* _exchange_auth_code (config_flow.py 226-258): the fields after it, and
\* what it returned
exchange_auth_code(w, reply) ==
  IF reply.status = 200
  THEN [w |-> [w EXCEPT !.access_token = DictGet(reply.access_token),
                        !.refresh_token = DictGet(reply.refresh_token),
                        !.exchange_status = "200"],
        success |-> TRUE]
  ELSE [w |-> [w EXCEPT !.exchange_status =
                          IF reply.status = 0 THEN "raised" ELSE "400"],
        success |-> FALSE]

\* async_step_oauth (config_flow.py 82-138)
async_step_oauth(w, given, reply, net) ==
  LET w1 == Enter(w, "oauth")
  IN IF given
     THEN LET x == exchange_auth_code(w1, reply)
          IN IF x.success
             THEN async_step_test(x.w, net)
             ELSE ShowForm(x.w, "oauth", "auth_failed")
     ELSE ShowForm(w1, "oauth", "")

\* async_step_user (config_flow.py 43-80); configured: an entry with this
\* unique id exists, and _abort_if_unique_id_configured ends the flow
async_step_user(w, user_input, configured) ==
  LET w0 == Enter(w, "user")
      w1 == [w0 EXCEPT !.client_id = user_input.client_id,
                       !.client_secret = user_input.client_secret]
  IN IF ~user_input.given THEN ShowForm(w0, "user", "")
     ELSE IF w1.client_id < 20
     THEN ShowForm(w1, "user", "invalid_client_id")
     ELSE IF w1.client_secret < 20
     THEN ShowForm(w1, "user", "invalid_client_secret")
     ELSE IF configured
     THEN [w1 EXCEPT !.outcome = "abort", !.errors = "already_configured"]
     ELSE async_step_oauth(w1, FALSE,
                           CHOOSE r \in WizardReplies : TRUE,
                           CHOOSE n \in TestStatuses : TRUE)

\* Lengths of the stripped client id and secret a user submits
CredentialLengths == {0, 19, 20, 36}

InitWizard ==
  /\ PollerAtRest
  /\ client = NewClient
  /\ wizard = NewWizard

\* The host starts the flow, and then hands every submission to the step
\* whose form is shown
WizardStart ==
  /\ wizard.outcome = "none"
  /\ wizard' = async_step_user(wizard, NoUserInput, FALSE)
  /\ PollerUnchanged /\ UNCHANGED client

SubmitUser ==
  /\ wizard.outcome = "form" /\ wizard.step_id = "user"
  /\ \E id \in CredentialLengths, secret \in CredentialLengths,
        configured \in BOOLEAN :
       wizard' = async_step_user(wizard,
                                 [given |-> TRUE, client_id |-> id,
                                  client_secret |-> secret],
                                 configured)
  /\ PollerUnchanged /\ UNCHANGED client

SubmitOauth ==
  /\ wizard.outcome = "form" /\ wizard.step_id = "oauth"
  /\ \E reply \in WizardReplies, net \in TestStatuses :
       wizard' = async_step_oauth(wizard, TRUE, reply, net)
  /\ PollerUnchanged /\ UNCHANGED client

SubmitTest ==
  /\ wizard.outcome = "form" /\ wizard.step_id = "test"
  /\ \E net \in TestStatuses : wizard' = async_step_test(wizard, net)
  /\ PollerUnchanged /\ UNCHANGED client

SubmitComplete ==
  /\ wizard.outcome = "form" /\ wizard.step_id = "complete"
  /\ wizard' = async_step_complete(wizard, TRUE)
  /\ PollerUnchanged /\ UNCHANGED client

NextWizard ==
  WizardStart \/ SubmitUser \/ SubmitOauth \/ SubmitTest \/ SubmitComplete

SpecWizard == InitWizard /\ [][NextWizard]_vars


\* ================================================================ claims
TickIdle == flow["tick"].pc = "idle"
TickEnded == result.flow = "tick"
TickFailed == TickEnded /\ result.kind = "raised"

\* C1: after 3 consecutive failed ticks (no successful tick in between)
\* the polling interval scheduled for the next tick is the error backoff
\* of 300 seconds.
C1_BackoffAfterThreeFailures ==
  (TickIdle /\ failStreak >= 3) => update_interval = UPDATE_INTERVAL_ERROR

\* C2: whenever ensure_valid returns successfully, the stored expiry minus
\* the 5-minute margin is strictly later than the current time.
C2_ReturnedTokenNotStale ==
  ev.st = "returned" => ~ev.stale

\* C3: with no time passing, consecutive ensure_valid calls of a flow
\* perform at most one token refresh in total.
C3_AtMostOneRefreshPerInstant ==
  refreshes_now <= 1

\* C4: ensure_valid refreshes before returning exactly when the stored
\* expiry minus 5 minutes has passed (or is missing or unparseable) or no
\* access token is stored; otherwise it returns the cached token without
\* a token-endpoint call.
C4_RefreshExactlyWhenNeeded ==
  ev.st = "returned" => (ev.posted <=> (ev.pre.stale \/ ~ev.pre.access))

\* C5: a tick that got as far as the receipt or map fetch of an active
\* ride never fails: it ends successfully and publishes the ride with
\* has_active_ride = true, whatever goes wrong inside those fetches.
C5_OpportunisticFetchNeverFailsTick ==
  (TickEnded /\ result.stage \in {"receipt", "map"}) =>
    (result.kind = "ok" /\ data.set /\ data.has_active_ride)

\* C6: a 404 from the current-ride endpoint is a normal empty result: the
\* tick ends successfully, publishes has_active_ride = false with no ride,
\* produces no update-failed signal and leaves the error counter at 0.
C6_NotFoundOnCurrentRideIsNoRide ==
  (last_call.stage = "current" /\ last_call.status = 404) =>
    /\ TickEnded /\ result.kind = "ok"
    /\ data.set /\ ~data.has_active_ride /\ data.ride = <<>>
    /\ error_count = 0 /\ failStreak = 0

C6_Witness ==
  /\ last_call.stage = "current" /\ last_call.status = 404
  /\ TickEnded /\ result.kind = "ok" /\ ~data.has_active_ride

\* C7: a 401 from a ride endpoint ends the client call with
\* UberAuthenticationError after exactly one HTTP request; the call is not
\* retried and no token refresh follows the 401 inside it.
C7_UnauthorizedRaisesWithoutRetry ==
  /\ last_call.status = 401 =>
       /\ last_call.outcome = "UberAuthenticationError"
       /\ last_call.nhttp = 1
       /\ last_call.npost <= 1
  /\ \A f \in Flows : flow[f].pc # "idle" => flow[f].nhttp <= 1

C7_Witness ==
  /\ last_call.status = 401
  /\ last_call.stage = "receipt"
  /\ last_call.outcome = "UberAuthenticationError"
  /\ flow["tick"].pc = "http" /\ flow["tick"].stage = "map"

\* The outcome the spec's table assigns to an HTTP status
SpecOutcome(status, endpoint, notfound) ==
  IF status = 401 THEN "UberAuthenticationError"
  ELSE IF status = 429 THEN "UberRateLimitError"
  ELSE IF status = 404 THEN
    (IF endpoint = ENDPOINT_CURRENT_REQUEST THEN "UberNoActiveRideError"
     ELSE notfound)
  ELSE IF status >= 400 THEN "UberAPIError"
  ELSE "ok"

StatusMapping(notfound) ==
  last_call.status # 0 =>
    /\ last_call.outcome =
         SpecOutcome(last_call.status, last_call.endpoint, notfound)
    /\ (last_call.status = 500 =>
          last_call.msg \in {"server message", "HTTP status"})

C9_OnlyUpdateFailedEscapesTick ==
  TickFailed =>
    /\ result.type = "UpdateFailed"
    /\ \/ result.cause = "AttributeError"
       \/ /\ last_call.flow = "tick"
          /\ result.cause = last_call.outcome
          /\ result.msg = last_call.msg

C9_Witness ==
  /\ TickFailed
  /\ result.type = "UpdateFailed"
  /\ result.cause \in {"ValueError", "ClientResponseError", "ClientError"}
  /\ result.stage = "receipt"

\* What a call that sent no request can end with once past the gate
TokenFailures == {"ValueError", "ClientResponseError", "ClientError"}

GateOk(g, outcome, nhttp, npost) ==
  /\ (g.exhausted /\ g.before_reset) =>
       (g.kind = "failfast" /\ outcome = "UberRateLimitError"
        /\ nhttp = 0 /\ npost = 0)
  /\ (g.exhausted /\ ~g.before_reset) =>
       (g.kind = "reset" /\ g.rem = RATE_LIMIT_CALLS
        /\ g.window = RATE_LIMIT_WINDOW
        /\ (nhttp = 0 => outcome \in TokenFailures \cup {"pending"}))

\* C10: with the budget exhausted and the reset time not reached, a
\* request fails fast with UberRateLimitError and nothing is sent; once
\* the reset time is reached the next request restores the budget to 2000,
\* moves the reset time one window (3600 s) ahead and goes on to be sent.
C10_LocalRateLimitGate ==
  /\ last_call.flow # "" =>
       GateOk(last_call.gate, last_call.outcome, last_call.nhttp,
              last_call.npost)
  /\ \A f \in Flows :
       flow[f].pc \in {"refresh", "http"} =>
         /\ GateOk(flow[f].gate, "pending", flow[f].nhttp, flow[f].npost)
         /\ flow[f].gate.kind # "failfast"
         /\ flow[f].gate.kind = "reset" =>
              rate_limit_remaining = RATE_LIMIT_CALLS

C10_Witness ==
  /\ flow["tick"].pc = "http"
  /\ flow["tick"].gate.kind = "reset"
  /\ rate_limit_remaining = RATE_LIMIT_CALLS
  /\ rate_limit_reset = now + RATE_LIMIT_WINDOW


\* C11: whenever a reply carries the server's rate-limit headers, the
\* remaining-calls budget and the reset timestamp take the server-reported
\* values, whatever the status of the reply (401, 404, 429 and other
\* errors included); a header that is absent leaves its value alone.
C11_HeadersOverrideLocalBudget ==
  /\ last_call.remaining.has => last_call.budget = last_call.remaining.v
  /\ last_call.reset.has => last_call.budget_reset = last_call.reset.v
  /\ (last_call.remaining.has /\ TickEnded /\ last_call.flow = "tick") =>
       rate_limit_remaining = last_call.remaining.v
  /\ (last_call.reset.has /\ TickEnded /\ last_call.flow = "tick") =>
       rate_limit_reset = last_call.reset.v

C11_Witness ==
  /\ last_call.status = 401
  /\ last_call.remaining = Header(0) /\ last_call.reset = Header(1800)
  /\ TickEnded
  /\ rate_limit_remaining = 0 /\ rate_limit_reset = 1800


\* C12: parse_ride_data is total: called with None it returns the empty
\* record, and called with any partial payload (nested driver, vehicle,
\* pickup, destination or location present with a null value included) it
\* returns a record without raising.
C12_ParseIsTotal ==
  parse_io.called =>
    /\ parse_io.ok
    /\ parse_io.arg = NoneRide => parse_io.rec = EmptyRecord

C14_RefreshFailureTaxonomy ==
  (ev.st = "raised" /\ ev.posted) =>
    /\ last_call.outcome \in {"UberAuthenticationError",
                              "TransientNetworkError"}
    /\ last_call.npost = 1
    /\ flow[ev.flow].pc = "idle"

\* C15: in every interleaving of a tick with an on-demand request at most
\* one token refresh is in flight at a time, and the same refresh token is
\* never submitted twice.
C15_AtMostOneRefreshInFlight ==
  ~(flow["tick"].pc = "refresh" /\ flow["hist"].pc = "refresh")

\* C18: every error of an on-demand history fetch (authentication, rate
\* limit, not found, transient network or token-refresh failure, generic)
\* reaches the caller as an "update failed" signal.
C18_HistoryErrorsAreUpdateFailed ==
  (result.flow = "hist" /\ result.kind = "raised") =>
    result.type = "UpdateFailed"

\* C19: after every tick the error counter equals the number of
\* consecutive failed ticks ending at that tick: 0 after a successful
\* tick, one more after each further failure.
C19_ErrorCountIsFailureStreak ==
  TickEnded => error_count = failStreak


\* C16: a status-changed event (old, new) is surfaced exactly when a tick
\* observes a ride whose status differs from the previously recorded one;
\* old is the previous status, None when nothing is recorded (after a
\* no-ride tick included), and new is the observed status.  A step in
\* which no ride is observed surfaces nothing.
ObservesRide ==
  /\ flow["tick"].pc = "http" /\ flow["tick"].stage = "current"
  /\ \/ flow'["tick"].stage \in {"receipt", "map"}
     \/ /\ result'.flow = "tick"
        /\ \/ result'.stage \in {"receipt", "map"}
           \/ result'.kind = "ok" /\ data'.has_active_ride

C16_StatusChangeEvents ==
  [][IF ObservesRide
     THEN /\ events' = IF last_status' # last_status
                       THEN <<<<last_status, last_status'>>>>
                       ELSE <<>>
          /\ flow'["tick"].parsed # <<>> =>
               flow'["tick"].parsed[1].status = last_status'
          /\ (result'.flow = "tick" /\ result'.kind = "ok") =>
               data'.ride[1].status = last_status'
     ELSE events' = <<>>]_vars

C16_Witness ==
  /\ events = <<<<"arriving", "completed">>>>
  /\ TickEnded /\ result.kind = "ok" /\ data.has_active_ride
  /\ data.ride[1].progress_percentage = 100
  /\ last_status = "completed"


\* C17: no HTTP request of an endpoint method is sent unless ensure_valid
\* has completed successfully earlier in the same call, and the bearer
\* header of the request carries the access token held at that moment.
SendsRequest(f) ==
  /\ flow'[f].pc = "http"
  /\ flow[f].pc # "http" \/ flow'[f].endpoint # flow[f].endpoint

C17_EnsureValidBeforeEveryRequest ==
  [][\A f \in Flows :
       SendsRequest(f) =>
         /\ ev'.flow = f /\ ev'.st = "returned"
         /\ flow'[f].bearer = ev'.tok
         /\ flow'[f].bearer = access_token(token_data')
         /\ flow'[f].nhttp = 1]_vars

C17_Witness ==
  /\ flow["hist"].pc = "http" /\ flow["hist"].endpoint = ENDPOINT_TRIP_HISTORY
  /\ flow["hist"].bearer = "AT1"
  /\ ev.flow = "hist" /\ ev.st = "returned" /\ ev.posted


\* C20: every successful tick that observes a ride leaves the polling
\* interval decided by the observed status alone, 10 seconds when the
\* status is processing, accepted, arriving or in_progress and 60 seconds
\* otherwise, whatever the interval was before; the error counter is 0 and
\* the published record has has_active_ride true.
C20_IntervalFollowsStatus ==
  (TickEnded /\ result.kind = "ok" /\ data.ride # <<>>) =>
    /\ update_interval =
         IF data.ride[1].status \in
              {"processing", "accepted", "arriving", "in_progress"}
         THEN 10 ELSE 60
    /\ error_count = 0
    /\ data.has_active_ride
    /\ last_status = data.ride[1].status

C20_Witness ==
  /\ TickEnded /\ result.kind = "ok" /\ data.has_active_ride
  /\ data.ride[1].status = "completed"
  /\ update_interval = 60 /\ error_count = 0
  /\ events = <<<<"arriving", "completed">>>>


\* C21: every tick whose outcome is no active ride publishes
\* has_active_ride = false with no ride record, sets the polling interval
\* to the inactive baseline of 60 seconds whatever it was before, resets
\* the error counter to 0 and clears the last-known status to None.
C21_NoRideTickResetsPollState ==
  (TickEnded /\ result.kind = "ok" /\ ~data.has_active_ride) =>
    /\ data.set /\ data.ride = <<>>
    /\ update_interval = 60
    /\ error_count = 0
    /\ last_status = None

C21_Witness ==
  /\ TickEnded /\ result.kind = "ok" /\ ~data.has_active_ride
  /\ data.ride = <<>>
  /\ result.before = [update_interval |-> 10, last_status |-> "arriving"]
  /\ update_interval = 60 /\ last_status = None /\ error_count = 0

\* C22: a failed tick whose error counter stays below the threshold of 3
\* keeps the current interval: the polling interval after the tick equals
\* the polling interval before the tick, wherever the failure occurred.
C22_FailedTickKeepsInterval ==
  (TickFailed /\ error_count < 3) =>
    update_interval = result.before.update_interval

\* C25: a tick that ends in an update-failed signal leaves the last-known
\* status exactly as it was before the tick, wherever in the tick the
\* failure occurred.
C25_FailedTickKeepsLastStatus ==
  (TickFailed /\ result.type = "UpdateFailed") =>
    last_status = result.before.last_status


\* C23: the ride-active flag is true exactly when the latest published
\* record has has_active_ride = true and its ride status is processing,
\* accepted, arriving or in_progress: true after a tick that returned
\* arriving, false after a tick that returned completed, after a no-ride
\* tick and before any record has been published.
C23_RideActiveFlag ==
  /\ is_on(data) <=>
       /\ data.set /\ data.has_active_ride
       /\ data.ride[1].status \in
            {"processing", "accepted", "arriving", "in_progress"}
  /\ ~data.set => ~is_on(data)
  /\ (TickEnded /\ result.kind = "ok") =>
       /\ last_status = "arriving" => is_on(data)
       /\ last_status \in {"completed", None} => ~is_on(data)

C23_Witness ==
  /\ TickEnded /\ result.kind = "ok"
  /\ data.has_active_ride /\ data.ride[1].status = "completed"
  /\ ~is_on(data)
  /\ result.before.last_status = "arriving"


\* C24: a refresh that fails (missing refresh token, non-2xx reply or
\* transport failure) leaves the held access token, refresh token and
\* expiry exactly as they were, so the token is still expired and the next
\* ensure_valid call attempts the refresh again with the same refresh
\* token.
C24_FailedRefreshKeepsTokenState ==
  [][ev'.st = "raised" =>
       /\ token_data' = token_data
       /\ is_token_expired(token_data', now')
       /\ ev'.posted =>
            /\ flow[ev'.flow].pc = "refresh"
            /\ refresh_token(token_data') = flow[ev'.flow].posted]_vars

C24_Witness ==
  /\ ev.st = "raised" /\ ev.posted
  /\ last_call.outcome = "ClientResponseError"
  /\ token_data.access_token = "AT1" /\ token_data.refresh_token = "RT1"
  /\ is_token_expired(token_data, now)


\* C26: the local remaining-calls budget changes only by a server header
\* override or by the window reset: a step that handles no reply with an
\* X-Rate-Limit-Remaining header leaves a budget of RATE_LIMIT_CALLS at
\* RATE_LIMIT_CALLS, and no call of such a step fails fast on the local
\* gate.
C26_BudgetChangesOnlyByHeaderOrReset ==
  [][/\ rate_limit_remaining' # rate_limit_remaining =>
          \/ last_call'.header_seen
          \/ /\ rate_limit_remaining <= 0 /\ now >= rate_limit_reset
             /\ rate_limit_remaining' = RATE_LIMIT_CALLS
     /\ (/\ rate_limit_remaining = RATE_LIMIT_CALLS
         /\ \/ rate_limit_remaining' # RATE_LIMIT_CALLS
            \/ last_call'.gate.kind = "failfast") =>
          last_call'.header_seen]_vars

C26_Witness ==
  /\ last_call.stage = "map" /\ last_call.status = 200
  /\ ~last_call.remaining.has /\ last_call.gate.kind = "pass"
  /\ rate_limit_remaining = RATE_LIMIT_CALLS
  /\ now = MaxTime


\* C27: in every state reachable by any sequence of ticks the polling
\* interval is 10, 60 or 300 seconds, and whenever it is the active 10
\* seconds the last-known status is processing, accepted, arriving or
\* in_progress.
C27_IntervalValuesAndActiveStatus ==
  /\ update_interval \in {10, 60, 300}
  /\ update_interval = 10 =>
       last_status \in {"processing", "accepted", "arriving", "in_progress"}

C27_Witness ==
  /\ TickIdle /\ TickFailed
  /\ update_interval = 10 /\ last_status = "in_progress"
  /\ result.before.update_interval = 10


\* C28: the on-demand history fetch leaves the poll state untouched:
\* whether it succeeds or fails, the polling interval, the error counter,
\* the last-known status and the latest published record are the same
\* after each of its steps as before.
HistoryStep == flow'["hist"] # flow["hist"] \/ result'.flow = "hist"

C28_HistoryLeavesPollState ==
  [][HistoryStep =>
       /\ update_interval' = update_interval
       /\ error_count' = error_count
       /\ last_status' = last_status
       /\ data' = data
       /\ flow'["tick"] = flow["tick"]]_vars

C28_Witness ==
  /\ result.flow = "hist" /\ result.type = "UpdateFailed"
  /\ result.cause = "UberAuthenticationError"
  /\ flow["tick"].pc = "http" /\ flow["tick"].stage = "receipt"
  /\ update_interval = 10 /\ last_status = "arriving"


\* C29: in UberAPIClient a 401 from the current-ride endpoint clears the
\* stored access token; from then on every get_current_ride,
\* get_ride_receipt and get_ride_history call returns None without a
\* request to a ride endpoint, until an exchange_auth_code call succeeds
\* and stores a new access token; a failed exchange_auth_code leaves the
\* token fields unchanged.
C29_ClearedTokenBlocksCalls ==
  /\ client.cleared =>
       /\ ~Truthy(client.access_token)
       /\ (client.obs.op \in RideOps /\ client.obs.started) =>
            (client.obs.ended /\ client.obs.value = None /\ ~client.obs.http)
  /\ (client.obs.op = "exchange" /\ client.obs.ended
      /\ ~client.obs.success) =>
       TokenFields(client) = client.obs.before


\* C30: in the configuration wizard a config entry is created only at the
\* end of the step order user, oauth, test, complete: only after the
\* client id and the secret each passed the 20-character length test, a
\* token exchange returned HTTP 200, and the token-valid, profile-access
\* and history-access tests all succeeded in the most recent test run; a
\* failed exchange shows the oauth step again and a failed test run shows
\* the test step again.
C30_EntryOnlyAfterAllSteps ==
  /\ wizard.entry.created =>
       /\ wizard.steps = <<"user", "oauth", "test", "complete">>
       /\ wizard.client_id >= 20 /\ wizard.client_secret >= 20
       /\ wizard.exchange_status = "200"
       /\ wizard.test_results.ran
       /\ wizard.test_results.token_valid
       /\ wizard.test_results.profile_access
       /\ wizard.test_results.history_access
       /\ wizard.entry.client_id = wizard.client_id
       /\ wizard.entry.access_token = wizard.access_token
       /\ wizard.entry.access_token # None
  /\ wizard.exchange_status \in {"400", "raised"} =>
       /\ wizard.outcome = "form" /\ wizard.step_id = "oauth"
       /\ wizard.errors = "auth_failed"
  /\ (/\ wizard.test_results.ran
      /\ ~(/\ wizard.test_results.token_valid
           /\ wizard.test_results.profile_access
           /\ wizard.test_results.history_access)) =>
       /\ wizard.outcome = "form" /\ wizard.step_id = "test"
       /\ wizard.errors = "tests_failed"

C30_Witness ==
  /\ wizard.entry.created /\ wizard.outcome = "create_entry"
  /\ wizard.entry.client_id = 36 /\ wizard.entry.client_secret = 20
  /\ wizard.entry.access_token = "AT1"
  /\ wizard.entry.refresh_token = None
  /\ ~wizard.test_results.current_ride

====
